---- MODULE Spec2Model ----
(***************************************************************************)
(* Model of rlm/environments/cloudflare_repl.py: the CloudflareREPL        *)
(* session (caller thread running execute_code turns, the broker poller    *)
(* thread, the calls lock), the in-sandbox execution script built by       *)
(* _build_exec_script, and the environment they talk to (the sandbox       *)
(* worker, the broker, the model-call collaborator).                       *)
(***************************************************************************)
EXTENDS Integers, Sequences, FiniteSets, TLC

VARIABLES
    worker_url,          \* self.worker_url: "" or the worker endpoint
    auth_token,          \* self.auth_token: "" or the bearer token
    broker_url,          \* self.broker_url: "none" or the broker endpoint
    lm_handler_address,  \* self.lm_handler_address: "none" or the address
    poller_thread,       \* self.poller_thread: 0 (None) or a thread id
    poller_stop,         \* self.poller_stop (threading.Event)
    session_open,        \* self._session not yet closed
    pending_llm_calls,   \* self.pending_llm_calls
    calls_lock,          \* holder of self._calls_lock: "free", "caller", "poller-i"
    pc,                  \* position of the caller thread
    turn,                \* number of execute_code calls started
    script,              \* execute_code local: script
    write_result,        \* execute_code local: write_result
    exec_result,         \* execute_code local: exec_result
    result,              \* the REPLResult returned by the last execute_code
    raised,              \* an exception escaped the last public call
    poller,              \* per thread: position and locals of _poll_broker
    broker,              \* the broker's requests, by id
    proc,                \* the script processes of the sandbox, by turn
    state_file,          \* /tmp/rlm_state.json in the sandbox
    script_file,         \* /tmp/rlm_exec.py in the sandbox
    faults,              \* number of environment faults so far
    hist                 \* history: model calls and /respond posts per request id,
                         \* cleanup calls, threads started, completions appended
                         \* in all and during the current turn's /sandbox/exec call,
                         \* whether a request was sent to the worker, the parity of
                         \* the /pending fetches made after a cleanup() call, per
                         \* request id the prompt indices whose model call reported a
                         \* failure, per thread those appended since its model call

vars == <<worker_url, auth_token, broker_url, lm_handler_address, poller_thread, poller_stop, session_open,
          pending_llm_calls, calls_lock, pc, turn, script, write_result, exec_result,
          result, raised, poller, broker, proc, state_file, script_file,
          faults, hist>>

(***************************************************************************)
(* Bounds                                                                  *)
(***************************************************************************)
MaxTurns == 2
MaxFaults == 1
MaxCodeLen == 2
MaxThreads == 2
MaxPrompts == 2
MaxLiveTurns == 1
MaxPayloadLen == 3

Turns == 1..MaxTurns
\* every turn starts one script, and the scripts of the model make at most one
\* bridge call each
MaxReqs == MaxTurns
ReqIds == 1..MaxReqs
Threads == 1..MaxThreads

(***************************************************************************)
(* Python values of the sandbox namespace                                  *)
(***************************************************************************)
Absent == [t |-> "absent", n |-> 0, s |-> ""]
IntV(i) == [t |-> "int", n |-> i, s |-> ""]
StrV(str) == [t |-> "str", n |-> 0, s |-> str]
ListV(k, str) == [t |-> "list", n |-> k, s |-> str]
TupleV(k) == [t |-> "tuple", n |-> k, s |-> ""]
SetV(k) == [t |-> "set", n |-> k, s |-> ""]
BadV == [t |-> "bad", n |-> 0, s |-> ""]
FnV(name) == [t |-> "function", n |-> 0, s |-> name]

Capabilities == {"llm_query", "llm_query_batched", "FINAL_VAR"}
UnderscoreNames == {"_t"}
Names == {"x", "y", "_t", "context"} \cup Capabilities

\* a filter that lets every name through
startswith_never(k) == FALSE

\* key.startswith("_")
startswith_underscore(k) == k \in UnderscoreNames

\* json.dumps(v) succeeds
json_dumps_ok(v) == v.t \in {"int", "str", "list", "tuple"}

\* json.loads(json.dumps(v)): a tuple is written as an array and read back as a list
json_roundtrip(v) == IF v.t = "tuple" THEN ListV(v.n, "") ELSE v

\* repr(v) succeeds
repr_ok(v) == v.t # "bad"

repr(v) ==
    CASE v.t = "int" -> ToString(v.n)
      [] v.t = "str" -> "'" \o v.s \o "'"
      [] v.t = "list" -> "[" \o ToString(v.n) \o v.s \o "]"
      [] v.t = "tuple" -> "(" \o ToString(v.n) \o ",)"
      [] v.t = "set" -> "{" \o ToString(v.n) \o "}"
      [] v.t = "function" -> "<function " \o v.s \o ">"
      [] OTHER -> ""

\* str(v): a string prints as itself, everything else as its repr
str(v) == IF v.t = "str" THEN v.s ELSE repr(v)

EmptyNs == [k \in Names |-> Absent]

(***************************************************************************)
(* The execution script (runs inside the sandbox)                          *)
(***************************************************************************)
\* variable_name.strip().strip("\"\'")
strip_quotes(a) ==
    CASE a = "'x'" -> "x"
      [] a = "\"x\"" -> "x"
      [] a = "'y'" -> "y"
      [] a = "\"y\"" -> "y"
      [] OTHER -> a

NotFound(name) == "Error: Variable '" \o name \o "' not found"

FINAL_VAR(locals, variable_name) ==
    LET name == strip_quotes(variable_name)
    IN IF locals[name] # Absent THEN str(locals[name]) ELSE NotFound(name)

\* the keys of _globals that the model's names can collide with
globals_keys == Capabilities

script_globals == [k \in Names |-> IF k \in globals_keys THEN FnV(k) ELSE Absent]

\* combined = {**_globals, **_locals}
merge_namespace(locals) ==
    [k \in Names |-> IF locals[k] # Absent THEN locals[k] ELSE script_globals[k]]

\* the copy-back without the test against the keys of _globals
copy_back_globals(locals, combined) ==
    [k \in Names |->
        IF combined[k] # Absent /\ ~startswith_underscore(k)
        THEN combined[k] ELSE locals[k]]

\* for key, value in combined.items(): if key not in _globals and not key.startswith("_")
copy_back(locals, combined) ==
    [k \in Names |->
        IF combined[k] # Absent /\ k \notin globals_keys /\ ~startswith_underscore(k)
        THEN combined[k] ELSE locals[k]]

\* a save that skips every entry json.dumps refuses
save_state_skipping(state) ==
    [k \in Names |->
        IF state[k] = Absent \/ startswith_underscore(k) THEN Absent
        ELSE IF json_dumps_ok(state[k]) THEN json_roundtrip(state[k])
        ELSE Absent]

\* the content of the state file after save_state(state), as json.load reads it
save_state(state) ==
    [k \in Names |->
        IF state[k] = Absent \/ startswith_underscore(k) THEN Absent
        ELSE IF json_dumps_ok(state[k]) THEN json_roundtrip(state[k])
        ELSE IF repr_ok(state[k]) THEN StrV(repr(state[k]))
        ELSE Absent]

\* load_state(): the file's mapping; a missing file is the empty mapping
load_state(file) == file

serialize_locals(state) ==
    [k \in Names |->
        IF state[k] = Absent \/ startswith_underscore(k) THEN ""
        ELSE IF repr_ok(state[k]) THEN repr(state[k])
        ELSE "<" \o state[k].t \o ">"]

NoLocals == [k \in Names |-> ""]
NoRecord == [stdout |-> "", stderr |-> "", locals |-> NoLocals]
NoFinal == [called |-> FALSE, name |-> "", ret |-> "", cur |-> Absent]
NoContext == [given |-> FALSE, payload |-> Absent]

\* a script process that was never started; shared holds the names whose
\* object in combined is the object _locals holds (combined is a shallow copy)
NoProc ==
    [st |-> "off", rest |-> <<>>, broker |-> "none", loaded |-> EmptyNs,
     locals |-> EmptyNs, combined |-> EmptyNs, err |-> FALSE, into |-> "",
     kind |-> "", nprompts |-> 0, req |-> 0, saved |-> EmptyNs, out |-> "",
     rec |-> NoRecord, errout |-> "", fv |-> NoFinal, ctx |-> NoContext,
     shared |-> {}]

Statement(op, name, arg, val) == [op |-> op, name |-> name, arg |-> arg, val |-> val]

\* text as a sequence of characters: "q" is the double quote, "b" the
\* backslash, "a" an ordinary character
Chars == {"q", "b", "a"}

Payloads == UNION {[1..k -> Chars] : k \in 0..MaxPayloadLen}

\* the Python string made of the characters of a text
RECURSIVE Text(_)
Text(cs) ==
    IF cs = <<>> THEN ""
    ELSE (CASE Head(cs) = "q" -> "\""
            [] Head(cs) = "b" -> "\\"
            [] OTHER -> "a") \o Text(Tail(cs))

starts_with(cs, pat) == Len(cs) >= Len(pat) /\ SubSeq(cs, 1, Len(pat)) = pat

\* str.replace(pat, rep): every occurrence, leftmost first, not overlapping
RECURSIVE replace(_, _, _)
replace(cs, pat, rep) ==
    IF cs = <<>> THEN <<>>
    ELSE IF starts_with(cs, pat)
    THEN rep \o replace(SubSeq(cs, Len(pat) + 1, Len(cs)), pat, rep)
    ELSE <<Head(cs)>> \o replace(Tail(cs), pat, rep)

TripleQuote == <<"q", "q", "q">>

\* load_context for a string payload: the text that follows context = in
\* the code it submits, i.e. the escaped payload between triple quotes
context_literal(payload) ==
    LET escaped == replace(replace(payload, <<"b">>, <<"b", "b">>),
                           TripleQuote, <<"b", "q", "b", "q", "b", "q">>)
    IN TripleQuote \o escaped \o TripleQuote

\* the body of a triple-quoted literal as the Python tokenizer reads it from
\* cs, the text after the opening quotes: an escaped character stands for
\* itself, the first unescaped triple quote ends the literal and must end the
\* code too
RECURSIVE literal_body(_)
literal_body(cs) ==
    IF cs = <<>> THEN [ok |-> FALSE, value |-> <<>>]
    ELSE IF starts_with(cs, TripleQuote)
    THEN [ok |-> Len(cs) = 3, value |-> <<>>]
    ELSE IF Head(cs) = "b" /\ Len(cs) >= 2
    THEN LET r == literal_body(SubSeq(cs, 3, Len(cs)))
             c == IF cs[2] = "a" THEN <<"b", "a">> ELSE <<cs[2]>>
         IN [ok |-> r.ok, value |-> c \o r.value]
    ELSE LET r == literal_body(Tail(cs))
         IN [ok |-> r.ok, value |-> <<Head(cs)>> \o r.value]

\* compiling and evaluating a triple-quoted literal: ok is FALSE for a SyntaxError
eval_literal(text) ==
    IF starts_with(text, TripleQuote) THEN literal_body(SubSeq(text, 4, Len(text)))
    ELSE [ok |-> FALSE, value |-> <<>>]

\* the script from "finally:" on: restore the streams, save_state(_locals),
\* print(json.dumps(result)); failed says whether exec raised an Exception
finish_script(p, failed) ==
    LET locals == IF failed THEN p.locals ELSE copy_back(p.locals, p.combined)
    IN [p EXCEPT !.st = "done", !.rest = <<>>, !.locals = locals, !.err = failed,
                 !.saved = save_state(locals), !.out = "record",
                 !.rec = [stdout |-> "",
                          stderr |-> IF failed THEN "Traceback" ELSE "",
                          locals |-> serialize_locals(locals)]]

\* the value sandboxed code gets from llm_query / llm_query_batched when the
\* bridge call fails with the given error text
bridge_error(kind, nprompts, text) ==
    IF kind = "single" THEN StrV("Error: " \o text) ELSE ListV(nprompts, "Error: " \o text)

\* exec(code, combined, combined), statement by statement, up to the next
\* blocking broker call or the end of the script
RECURSIVE run_script(_)
run_script(p) ==
    IF p.rest = <<>> THEN finish_script(p, FALSE)
    ELSE
      LET s == Head(p.rest)
          q == [p EXCEPT !.rest = Tail(p.rest)]
      IN CASE s.op = "set" -> run_script([q EXCEPT !.combined[s.name] = s.val, !.shared = @ \ {s.name}])
           [] s.op = "add1" ->
                IF q.combined[s.arg].t = "int"
                THEN run_script([q EXCEPT !.combined[s.name] = IntV(q.combined[s.arg].n + 1),
                                            !.shared = @ \ {s.name}])
                ELSE finish_script(q, TRUE)
           [] s.op = "del" ->
                IF q.combined[s.name] # Absent
                THEN run_script([q EXCEPT !.combined[s.name] = Absent, !.shared = @ \ {s.name}])
                ELSE finish_script(q, TRUE)
           [] s.op = "append" ->
                \* s.name.append(1): the list object is changed in place, and it
                \* is the object _locals holds when the name is shared
                IF q.combined[s.name].t = "list"
                THEN LET v == ListV(q.combined[s.name].n + 1, q.combined[s.name].s)
                     IN run_script([q EXCEPT !.combined[s.name] = v,
                                           !.locals[s.name] = IF s.name \in q.shared THEN v ELSE @])
                ELSE finish_script(q, TRUE)
           [] s.op = "raise" -> finish_script(q, TRUE)
           [] s.op = "context" ->
                \* context = <literal s.arg>; s.val is the payload load_context was given
                LET r == eval_literal(s.arg)
                    c == [q EXCEPT !.ctx = [given |-> TRUE, payload |-> s.val]]
                IN IF r.ok
                   THEN run_script([c EXCEPT !.combined[s.name] = StrV(Text(r.value)),
                                               !.shared = @ \ {s.name}])
                   ELSE finish_script(c, TRUE)
           [] s.op = "final" ->
                IF q.combined["FINAL_VAR"] = FnV("FINAL_VAR")
                THEN LET r == FINAL_VAR(q.locals, s.arg)
                     IN run_script([q EXCEPT !.combined[s.name] = StrV(r), !.shared = @ \ {s.name},
                                           !.fv = [called |-> TRUE, name |-> strip_quotes(s.arg),
                                                   ret |-> r,
                                                   cur |-> q.combined[strip_quotes(s.arg)]]])
                ELSE finish_script(q, TRUE)
           [] s.op \in {"single", "batched"} ->
                LET fname == IF s.op = "single" THEN "llm_query" ELSE "llm_query_batched"
                IN IF q.combined[fname] # FnV(fname) THEN finish_script(q, TRUE)
                   ELSE IF q.broker = "none"
                   THEN run_script([q EXCEPT !.combined[s.name] =
                                       bridge_error(s.op, s.val.n, "LLM broker not configured"),
                                       !.shared = @ \ {s.name}])
                   ELSE [q EXCEPT !.st = "blocked", !.into = s.name, !.kind = s.op,
                                  !.nprompts = s.val.n]
           [] s.op = "die" ->
                \* the interpreter exits inside exec (SystemExit, os._exit) after
                \* writing s.arg to the real stdout: no save_state, no record
                [q EXCEPT !.st = "dead", !.rest = <<>>, !.out = s.arg]
           [] OTHER -> finish_script(q, TRUE)

\* python3 /tmp/rlm_exec.py: the script up to its first blocking call
start_script(file, state) ==
    IF ~file.exists
    THEN [NoProc EXCEPT !.st = "dead", !.errout = "can't open file"]
    ELSE LET locals == load_state(state)
         IN run_script([NoProc EXCEPT !.rest = file.code, !.broker = file.broker,
                                      !.loaded = locals, !.locals = locals,
                                      !.combined = merge_namespace(locals),
                                      !.shared = {k \in Names : locals[k] # Absent}])

(***************************************************************************)
(* Code the caller may submit in a turn                                    *)
(***************************************************************************)
CodesOver(S, n) == UNION {[1..k -> S] : k \in 0..n}

\* x = llm_query("p") and y = llm_query_batched([p1, .., pn])
LMStatements ==
    {Statement("single", "x", "", IntV(1)),
     Statement("batched", "y", "", IntV(MaxPrompts))}

\* code that makes no bridge call, and code that makes one
LMCodes == {<<>>} \cup {<<st>> : st \in LMStatements}

\* x = 2, x = (1,), x = {1}, x = <object whose repr raises>, _t = 1,
\* llm_query = 1, y = x + 1, del x, raise ValueError, y = FINAL_VAR("'x'")
ScriptStatements ==
    {Statement("set", "x", "", v) : v \in {IntV(2), TupleV(1), SetV(1), BadV}}
    \cup {Statement("set", "_t", "", IntV(1)), Statement("set", "llm_query", "", IntV(1)),
          Statement("add1", "y", "x", Absent), Statement("del", "x", "", Absent),
          Statement("raise", "", "", Absent), Statement("final", "y", "'x'", Absent)}

ScriptCodes == CodesOver(ScriptStatements, MaxCodeLen)

\* x = 2, y = FINAL_VAR("x"), and code that ends the interpreter inside exec
\* (SystemExit, os._exit) after writing nothing, a text line, the line 42 or
\* the line {} to the real stdout
ResultStatements ==
    {Statement("set", "x", "", IntV(2)), Statement("final", "y", "x", Absent)}
    \cup {Statement("die", "", out, Absent) : out \in {"", "text", "42", "{}"}}

ResultCodes == CodesOver(ResultStatements, MaxCodeLen)

(***************************************************************************)
(* Broker (external collaborator, wire contract only) and poller records   *)
(***************************************************************************)
NoPayload == [kind |-> "none", items |-> <<>>]

NoRequest ==
    [st |-> "free", kind |-> "", nprompts |-> 0, waiter |-> 0, payload |-> NoPayload,
     turn |-> 0, in_exec |-> FALSE, resolved_in_exec |-> FALSE, timed_out |-> FALSE]

NoPoller == [pc |-> "none", items |-> <<>>, cur |-> 0, resps |-> <<>>, i |-> 0]

PollerName(th) == "poller-" \o ToString(th)

\* the text of the completion the model-call collaborator gives for prompt i of request id
Answer(id, i) == "answer-" \o ToString(id) \o "-" \o ToString(i)

\* GET {broker_url}/pending: the ids of the unresolved requests, oldest first
RECURSIVE pending_from(_, _)
pending_from(b, i) ==
    IF i > MaxReqs THEN <<>>
    ELSE IF b[i].st = "pending" THEN <<i>> \o pending_from(b, i + 1)
    ELSE pending_from(b, i + 1)

pending_items(b) == pending_from(b, 1)

free_ids(b) == {i \in ReqIds : b[i].st = "free"}

\* POST {broker_url}/enqueue: the request is held under the next id
enqueue(b, t, kind, nprompts, inexec) ==
    LET id == CHOOSE i \in free_ids(b) : \A j \in free_ids(b) : i <= j
    IN [b EXCEPT ![id] = [NoRequest EXCEPT !.st = "pending", !.kind = kind,
                                           !.nprompts = nprompts, !.waiter = t,
                                           !.turn = t, !.in_exec = inexec]]

\* POST {broker_url}/respond: resolves the matching blocked enqueue call
respond(b, id, payload, inexec) ==
    IF b[id].st = "pending"
    THEN [b EXCEPT ![id].st = "resolved", ![id].payload = payload,
                   ![id].resolved_in_exec = inexec]
    ELSE b

\* what llm_query / llm_query_batched return for the broker's answer
bridge_value(kind, nprompts, payload) ==
    IF payload.kind = "error" THEN bridge_error(kind, nprompts, payload.items[1])
    ELSE IF kind = "single"
    THEN (IF payload.kind = "response" THEN StrV(payload.items[1])
          ELSE StrV("Error: No response"))
    ELSE (IF payload.kind = "responses" THEN ListV(Len(payload.items), "")
          ELSE ListV(nprompts, "Error: No response"))

(***************************************************************************)
(* The session: construction and setup                                     *)
(***************************************************************************)
NoScript == [exists |-> FALSE, code |-> <<>>, broker |-> "none"]
NoDict == [error |-> FALSE, success |-> "absent"]
NoExec == [error |-> FALSE, stdout |-> "absent", rec |-> NoRecord, stderr |-> ""]
NoResult == [turn |-> 0, stdout |-> "", stderr |-> "", locals |-> NoLocals, rlm_calls |-> <<>>]

\* _build_exec_script(code, broker_url)
build_exec_script(code, url) == [exists |-> TRUE, code |-> code, broker |-> url]

\* _request: a transport failure is returned as {"error": str(e), "success": False}
transport_error == [error |-> TRUE, success |-> "false"]

\* dict.get("success", True)
get_success(d) == IF d.success = "absent" THEN TRUE ELSE d.success = "true"

sandbox_vars == <<broker, proc, state_file, script_file>>
poller_vars == <<poller, hist>>
session_vars == <<poller_thread, poller_stop, session_open>>
config_vars == <<worker_url, auth_token, broker_url, lm_handler_address>>
turn_vars == <<pc, turn, script, write_result, exec_result, result, raised>>

Init ==
    /\ worker_url \in {"", "worker"}
    /\ auth_token \in {"", "token"}
    /\ broker_url \in {"none", "broker"}
    /\ lm_handler_address \in {"none", "handler"}
    /\ poller_thread = 0
    /\ poller_stop = FALSE
    /\ session_open = TRUE
    /\ pending_llm_calls = <<>>
    /\ calls_lock = "free"
    /\ pc = "new"
    /\ turn = 0
    /\ script = NoScript
    /\ write_result = NoDict
    /\ exec_result = NoExec
    /\ result = NoResult
    /\ raised = FALSE
    /\ poller = [th \in Threads |-> NoPoller]
    /\ broker = [i \in ReqIds |-> NoRequest]
    /\ proc = [t \in Turns |-> NoProc]
    /\ state_file = EmptyNs
    /\ script_file = NoScript
    /\ faults = 0
    /\ hist = [calls |-> [i \in ReqIds |-> 0], posts |-> [i \in ReqIds |-> 0],
               cleanups |-> 0, started |-> 0, appended |-> 0, in_window |-> 0,
               probed |-> FALSE, late_fetch |-> FALSE,
               failed |-> [i \in ReqIds |-> {}], done |-> [th \in Threads |-> {}]]

\* setup(): probe the sandbox, then start the poller thread if both the broker
\* and the model-call address are configured; called at the end of __init__
\* and callable again on the constructed session
setup(probe_ok) ==
    /\ pc \in {"new", "idle"}
    /\ IF ~probe_ok
       THEN /\ faults < MaxFaults
            /\ faults' = faults + 1
            /\ pc' = IF pc = "new" THEN "failed" ELSE pc
            /\ raised' = TRUE
            /\ hist' = [hist EXCEPT !.probed = TRUE]
            /\ UNCHANGED <<poller_thread, poller_stop, poller>>
       ELSE /\ pc' = "idle"
            /\ raised' = FALSE
            /\ UNCHANGED faults
            /\ IF broker_url # "none" /\ lm_handler_address # "none"
               THEN /\ hist.started < MaxThreads
                    /\ poller_stop' = FALSE
                    /\ poller_thread' = hist.started + 1
                    /\ poller' = [poller EXCEPT ![hist.started + 1] =
                                      [NoPoller EXCEPT !.pc = "top"]]
                    /\ hist' = [hist EXCEPT !.started = @ + 1, !.probed = TRUE]
               ELSE /\ hist' = [hist EXCEPT !.probed = TRUE]
                    /\ UNCHANGED <<poller_thread, poller_stop, poller>>
    /\ UNCHANGED <<config_vars, session_open, pending_llm_calls, calls_lock, turn,
                   script, write_result, exec_result, result, sandbox_vars>>

\* __init__: the worker URL is required (ValueError), the token defaults to the
\* environment's or to the empty string; then the session is built and setup() runs
init(probe_ok) ==
    /\ pc = "new"
    /\ IF worker_url = ""
       THEN /\ pc' = "rejected"
            /\ raised' = TRUE
            /\ UNCHANGED <<config_vars, session_vars, pending_llm_calls, calls_lock, turn,
                           script, write_result, exec_result, result, poller_vars,
                           sandbox_vars, faults>>
       ELSE setup(probe_ok)

\* cleanup() without its "is not None" test: joining a thread that is None raises
cleanup_unguarded ==
    /\ pc \in {"idle", "failed"}
    /\ poller_stop' = TRUE
    /\ IF poller_thread # 0
       THEN /\ poller_thread' = 0
            /\ session_open' = FALSE
            /\ raised' = FALSE
       ELSE /\ raised' = TRUE
            /\ UNCHANGED <<poller_thread, session_open>>
    /\ hist' = [hist EXCEPT !.cleanups = IF @ < 2 THEN @ + 1 ELSE @]
    /\ UNCHANGED <<config_vars, pending_llm_calls, calls_lock, pc, turn, script,
                   write_result, exec_result, result, poller, sandbox_vars, faults>>

\* cleanup(): stop the poller (bounded join), close the HTTP session
cleanup ==
    /\ pc \in {"idle", "failed"}
    /\ IF poller_thread # 0
       THEN /\ poller_stop' = TRUE
            /\ poller_thread' = 0
       ELSE UNCHANGED <<poller_stop, poller_thread>>
    /\ session_open' = FALSE
    /\ raised' = FALSE
    /\ hist' = [hist EXCEPT !.cleanups = IF @ < 2 THEN @ + 1 ELSE @]
    /\ UNCHANGED <<config_vars, pending_llm_calls, calls_lock, pc, turn, script,
                   write_result, exec_result, result, poller, sandbox_vars, faults>>

(***************************************************************************)
(* The sandbox: script processes                                           *)
(***************************************************************************)
\* the process table when the process of turn t takes a step: processes that
\* ended before the turn before t are forgotten
reaped(t) ==
    [u \in Turns |-> IF u + 1 < t /\ proc[u].st \in {"done", "dead"} THEN NoProc ELSE proc[u]]

\* the process of turn t has run up to p, with b the broker's requests: a
\* blocking bridge call is enqueued at the broker, a finished script has
\* written the state file
sandbox_step(t, p, b, inexec) ==
    /\ p.st = "blocked" => free_ids(b) # {}
    /\ IF p.st = "blocked"
       THEN LET b2 == enqueue(b, t, p.kind, p.nprompts, inexec)
                id == CHOOSE i \in ReqIds : b2[i] # b[i]
            IN /\ broker' = b2
               /\ proc' = [reaped(t) EXCEPT ![t] = [p EXCEPT !.req = id]]
       ELSE /\ broker' = b
            /\ proc' = [reaped(t) EXCEPT ![t] = p]
    /\ state_file' = IF p.st = "done" THEN p.saved ELSE state_file

\* the broker resolved the request the script of turn t is blocked on:
\* requests.post(.../enqueue) returns and the script goes on
SandboxResume(t) ==
    /\ proc[t].st = "blocked"
    /\ broker[proc[t].req].st = "resolved"
    /\ LET p == proc[t]
           v == bridge_value(p.kind, p.nprompts, broker[p.req].payload)
       IN sandbox_step(t, run_script([p EXCEPT !.st = "off", !.req = 0,
                                               !.combined[p.into] = v, !.shared = @ \ {p.into}]),
                       [broker EXCEPT ![p.req].waiter = 0],
                       pc = "exec" /\ turn = t)
    /\ UNCHANGED <<config_vars, session_vars, turn_vars, pending_llm_calls, calls_lock,
                   poller_vars, script_file, faults>>

\* requests.post(.../enqueue, timeout=300) times out in the sandbox: the bridge
\* call returns its error value; the request stays with the broker
SandboxTimeout(t) ==
    /\ proc[t].st = "blocked"
    /\ broker[proc[t].req].st = "pending"
    /\ faults < MaxFaults
    /\ faults' = faults + 1
    /\ LET p == proc[t]
           v == bridge_error(p.kind, p.nprompts, "LM query failed - timed out")
       IN sandbox_step(t, run_script([p EXCEPT !.st = "off", !.req = 0,
                                               !.combined[p.into] = v, !.shared = @ \ {p.into}]),
                       [broker EXCEPT ![p.req].waiter = 0, ![p.req].timed_out = TRUE],
                       pc = "exec" /\ turn = t)
    /\ UNCHANGED <<config_vars, session_vars, turn_vars, pending_llm_calls, calls_lock,
                   poller_vars, script_file>>

(***************************************************************************)
(* execute_code, by the caller thread                                      *)
(***************************************************************************)
\* the call is made and "with self._calls_lock" is entered
ExecuteCode(code) ==
    /\ pc = "idle"
    /\ turn < MaxTurns
    /\ calls_lock = "free"
    /\ calls_lock' = "caller"
    /\ pc' = "clear"
    /\ turn' = turn + 1
    /\ script' = build_exec_script(code, broker_url)
    /\ raised' = FALSE
    /\ write_result' = NoDict
    /\ exec_result' = NoExec
    /\ hist' = [hist EXCEPT !.in_window = 0]
    /\ UNCHANGED <<config_vars, session_vars, pending_llm_calls, result, poller,
                   sandbox_vars, faults>>

\* the clear with the lock kept over the rest of the turn
ClearCalls_holding ==
    /\ pc = "clear"
    /\ pending_llm_calls' = <<>>
    /\ pc' = "write"
    /\ UNCHANGED <<config_vars, session_vars, calls_lock, turn, script, write_result,
                   exec_result, result, raised, poller_vars, sandbox_vars, faults>>

\* self.pending_llm_calls.clear(); the lock is released and /sandbox/write is sent
ClearCalls ==
    /\ pc = "clear"
    /\ pending_llm_calls' = <<>>
    /\ calls_lock' = "free"
    /\ pc' = "write"
    /\ UNCHANGED <<config_vars, session_vars, turn, script, write_result, exec_result,
                   result, raised, poller_vars, sandbox_vars, faults>>

\* the answers of the worker to /sandbox/write, as _request returns them
WriteAnswers == {"success", "transport", "error"}

write_answer(a) ==
    CASE a = "success" -> [error |-> FALSE, success |-> "true"]
      [] a = "transport" -> transport_error
      [] OTHER -> [error |-> TRUE, success |-> "absent"]

\* if "error" in write_result and not write_result.get("success", True)
write_failed(wr) == wr.error /\ ~get_success(wr)

\* /sandbox/write returns; on a write failure the turn returns at once,
\* otherwise /sandbox/exec is sent and the sandbox starts python3 on the file
WriteReturn(a) ==
    /\ pc = "write"
    /\ a # "success" => faults < MaxFaults
    /\ faults' = IF a = "success" THEN faults ELSE faults + 1
    /\ write_result' = write_answer(a)
    /\ script_file' = IF a = "success" THEN script ELSE script_file
    /\ script' = NoScript
    /\ IF write_failed(write_result')
       THEN /\ result' = [turn |-> turn, stdout |-> "",
                          stderr |-> "Failed to write script: error",
                          locals |-> NoLocals, rlm_calls |-> <<>>]
            /\ pc' = "idle"
            /\ UNCHANGED <<broker, proc, state_file>>
       ELSE /\ pc' = "exec"
            /\ result' = result
            /\ sandbox_step(turn, start_script(script_file', state_file), broker, TRUE)
    /\ UNCHANGED <<config_vars, session_vars, pending_llm_calls, calls_lock, turn,
                   exec_result, raised, poller_vars>>

\* /sandbox/exec returns the output of the finished process
ExecReturn ==
    /\ pc = "exec"
    /\ proc[turn].st \in {"done", "dead"}
    /\ exec_result' = [error |-> FALSE, stdout |-> proc[turn].out,
                       rec |-> proc[turn].rec, stderr |-> proc[turn].errout]
    /\ pc' = "got"
    /\ UNCHANGED <<config_vars, session_vars, pending_llm_calls, calls_lock, turn, script,
                   write_result, result, raised, poller_vars, sandbox_vars, faults>>

\* /sandbox/exec fails in transport (timeout): _request returns the error dict
\* while the process may still be running in the sandbox
ExecTimeout ==
    /\ pc = "exec"
    /\ faults < MaxFaults
    /\ faults' = faults + 1
    /\ exec_result' = [NoExec EXCEPT !.error = TRUE]
    /\ pc' = "got"
    /\ UNCHANGED <<config_vars, session_vars, pending_llm_calls, calls_lock, turn, script,
                   write_result, result, raised, poller_vars, sandbox_vars>>

\* "with self._calls_lock" of the harvest is entered
HarvestLock ==
    /\ pc = "got"
    /\ calls_lock = "free"
    /\ calls_lock' = "caller"
    /\ pc' = "harvest"
    /\ UNCHANGED <<config_vars, session_vars, pending_llm_calls, turn, script, write_result,
                   exec_result, result, raised, poller_vars, sandbox_vars, faults>>

\* exec_result.get("stdout", "") and the classification of its last line by
\* json.loads: a result record, another JSON object, another JSON value, no JSON
stdout_of(er) == IF er.stdout = "absent" THEN "" ELSE er.stdout

\* the REPLResult execute_code builds from exec_result and the harvested calls;
\* turn 0 stands for an exception raised instead (result.get on a non-dict)
parse_result(er, calls, t) ==
    LET out == stdout_of(er)
    IN CASE out = "record" ->
              [turn |-> t, stdout |-> er.rec.stdout, stderr |-> er.rec.stderr \o er.stderr,
               locals |-> er.rec.locals, rlm_calls |-> calls]
         [] out = "{}" ->
              [turn |-> t, stdout |-> "", stderr |-> "" \o er.stderr,
               locals |-> NoLocals, rlm_calls |-> calls]
         [] out = "42" -> [NoResult EXCEPT !.turn = 0]
         [] OTHER ->
              [turn |-> t, stdout |-> out,
               stderr |-> IF er.stderr # "" THEN er.stderr
                          ELSE "Failed to parse execution result",
               locals |-> NoLocals, rlm_calls |-> calls]

\* pending_calls = copy; clear; release the lock; parse the output and return
Harvest ==
    /\ pc = "harvest"
    /\ LET r == parse_result(exec_result, pending_llm_calls, turn)
       IN IF r.turn = 0
          THEN /\ raised' = TRUE
               /\ result' = result
          ELSE /\ raised' = FALSE
               /\ result' = r
    /\ pending_llm_calls' = <<>>
    /\ calls_lock' = "free"
    /\ pc' = "idle"
    /\ UNCHANGED <<config_vars, session_vars, turn, script, write_result, exec_result,
                   poller_vars, sandbox_vars, faults>>

(***************************************************************************)
(* _poll_broker and _handle_llm_request, by a poller thread                *)
(***************************************************************************)
\* the for loop goes on with the next fetched item, or the loop body ends
\* (time.sleep) and the while condition is next
next_item(pl) ==
    IF pl.items = <<>>
    THEN [NoPoller EXCEPT !.pc = "top"]
    ELSE [NoPoller EXCEPT !.pc = "call", !.cur = Head(pl.items), !.items = Tail(pl.items)]

\* while not self.poller_stop.is_set(): GET /pending and take the first item
PollFetch(th) ==
    /\ poller[th].pc = "top"
    /\ IF poller_stop
       THEN /\ poller' = [poller EXCEPT ![th] = [NoPoller EXCEPT !.pc = "exited"]]
            /\ hist' = hist
       ELSE /\ poller' = [poller EXCEPT ![th] =
                             next_item([NoPoller EXCEPT !.items = pending_items(broker)])]
            /\ hist' = [hist EXCEPT !.late_fetch = IF hist.cleanups > 0 THEN ~@ ELSE @]
    /\ UNCHANGED <<config_vars, session_vars, turn_vars, pending_llm_calls, calls_lock,
                   sandbox_vars, faults>>

\* GET /pending fails in transport: except ...: pass, sleep, next round
PollFetchFail(th) ==
    /\ poller[th].pc = "top"
    /\ ~poller_stop
    /\ faults < MaxFaults
    /\ faults' = faults + 1
    /\ UNCHANGED <<config_vars, session_vars, turn_vars, pending_llm_calls, calls_lock,
                   poller_vars, sandbox_vars>>

\* the payload with the failed elements of a batch left out
response_payload_skipping(kind, id, resps) ==
    IF kind = "single"
    THEN (IF resps[1] THEN [kind |-> "response", items |-> <<Answer(id, 1)>>]
          ELSE [kind |-> "error", items |-> <<"model call failed">>])
    ELSE [kind |-> "responses",
          items |-> [i \in 1..Cardinality({j \in 1..Len(resps) : resps[j]}) |-> Answer(id, i)]]

\* the payload _handle_llm_request returns for the model's responses
\* (resps[i] is the success flag of response i)
response_payload(kind, id, resps) ==
    IF kind = "single"
    THEN (IF resps[1] THEN [kind |-> "response", items |-> <<Answer(id, 1)>>]
          ELSE [kind |-> "error", items |-> <<"model call failed">>])
    ELSE [kind |-> "responses",
          items |-> [i \in 1..Len(resps) |->
                        IF resps[i] THEN Answer(id, i) ELSE "Error: model call failed"]]

\* the first index from i on whose response is a success, 0 if there is none
RECURSIVE next_success(_, _)
next_success(resps, i) ==
    IF i > Len(resps) THEN 0
    ELSE IF resps[i] THEN i ELSE next_success(resps, i + 1)

\* the model call with the payload posted before any completion is appended
PollCall_responding(th, resps) ==
    /\ poller[th].pc = "call"
    /\ LET pl == poller[th]
           nfail == Cardinality({i \in 1..Len(resps) : ~resps[i]})
       IN /\ Len(resps) = broker[pl.cur].nprompts
          /\ faults + nfail <= MaxFaults
          /\ faults' = faults + nfail
          /\ hist' = [hist EXCEPT !.calls[pl.cur] = @ + 1,
                                  !.failed[pl.cur] = @ \cup {i \in 1..Len(resps) : ~resps[i]},
                                  !.done[th] = {}]
          /\ poller' = [poller EXCEPT ![th] =
                          [pl EXCEPT !.resps = resps, !.i = 0, !.pc = "respond"]]
    /\ UNCHANGED <<config_vars, session_vars, turn_vars, pending_llm_calls, calls_lock,
                   sandbox_vars>>

\* send_lm_request / send_lm_request_batched returns: one response per prompt
PollCall(th, resps) ==
    /\ poller[th].pc = "call"
    /\ LET pl == poller[th]
           nfail == Cardinality({i \in 1..Len(resps) : ~resps[i]})
           j == next_success(resps, 1)
       IN /\ Len(resps) = broker[pl.cur].nprompts
          /\ faults + nfail <= MaxFaults
          /\ faults' = faults + nfail
          /\ hist' = [hist EXCEPT !.calls[pl.cur] = @ + 1,
                                  !.failed[pl.cur] = @ \cup {i \in 1..Len(resps) : ~resps[i]},
                                  !.done[th] = {}]
          /\ poller' = [poller EXCEPT ![th] =
                          [pl EXCEPT !.resps = resps, !.i = j,
                                     !.pc = IF j = 0 THEN "respond" ELSE "lock"]]
    /\ UNCHANGED <<config_vars, session_vars, turn_vars, pending_llm_calls, calls_lock,
                   sandbox_vars>>

\* handling the item raises before the model call has answered:
\* except Exception: pass, sleep, next round
PollRaise(th) ==
    /\ poller[th].pc = "call"
    /\ faults < MaxFaults
    /\ faults' = faults + 1
    /\ poller' = [poller EXCEPT ![th] = [NoPoller EXCEPT !.pc = "top"]]
    /\ UNCHANGED <<config_vars, session_vars, turn_vars, pending_llm_calls, calls_lock,
                   hist, sandbox_vars>>

\* "with self._calls_lock" of an append is entered
PollLock(th) ==
    /\ poller[th].pc = "lock"
    /\ calls_lock = "free"
    /\ calls_lock' = PollerName(th)
    /\ poller' = [poller EXCEPT ![th].pc = "append"]
    /\ UNCHANGED <<config_vars, session_vars, turn_vars, pending_llm_calls, hist,
                   sandbox_vars, faults>>

\* the completion appended for response i of request id; turn and in_exec
\* record where the caller thread was at the time
Completion(id, i) ==
    [id |-> id, idx |-> i, serial |-> hist.appended + 1,
     turn |-> turn, in_exec |-> pc = "exec"]

\* self.pending_llm_calls.append(...); the lock is released
PollAppend(th) ==
    /\ poller[th].pc = "append"
    /\ LET pl == poller[th]
           j == next_success(pl.resps, pl.i + 1)
       IN /\ pending_llm_calls' = Append(pending_llm_calls, Completion(pl.cur, pl.i))
          /\ poller' = [poller EXCEPT ![th] =
                          [pl EXCEPT !.i = j, !.pc = IF j = 0 THEN "respond" ELSE "lock"]]
          /\ hist' = [hist EXCEPT !.appended = @ + 1,
                                  !.in_window = IF pc = "exec" THEN @ + 1 ELSE @,
                                  !.done[th] = @ \cup {pl.i}]
    /\ calls_lock' = "free"
    /\ UNCHANGED <<config_vars, session_vars, turn_vars, sandbox_vars, faults>>

\* POST /respond with the payload; then the next item
PollRespond(th) ==
    /\ poller[th].pc = "respond"
    /\ LET pl == poller[th]
       IN /\ broker' = respond(broker, pl.cur,
                               response_payload(broker[pl.cur].kind, pl.cur, pl.resps),
                               pc = "exec" /\ turn = broker[pl.cur].turn)
          /\ hist' = [hist EXCEPT !.posts[pl.cur] = @ + 1]
          /\ poller' = [poller EXCEPT ![th] = next_item(pl)]
    /\ UNCHANGED <<config_vars, session_vars, turn_vars, pending_llm_calls, calls_lock,
                   proc, state_file, script_file, faults>>

\* POST /respond fails in transport: except RequestException: pass, sleep, next round
PollRespondFail(th) ==
    /\ poller[th].pc = "respond"
    /\ faults < MaxFaults
    /\ faults' = faults + 1
    /\ hist' = [hist EXCEPT !.posts[poller[th].cur] = @ + 1]
    /\ poller' = [poller EXCEPT ![th] = [NoPoller EXCEPT !.pc = "top"]]
    /\ UNCHANGED <<config_vars, session_vars, turn_vars, pending_llm_calls, calls_lock,
                   sandbox_vars>>

(***************************************************************************)
(* Specifications                                                          *)
(***************************************************************************)
Responses == UNION {[1..k -> BOOLEAN] : k \in 1..MaxPrompts}

Construct == \E ok \in BOOLEAN : init(ok)
Cleanup == cleanup
Call == \E code \in LMCodes : ExecuteCode(code)
Written == \E a \in WriteAnswers : WriteReturn(a)
Resume == \E t \in Turns : SandboxResume(t)
BridgeTimeout == \E t \in Turns : SandboxTimeout(t)
Fetch == \E th \in Threads : PollFetch(th)
FetchFail == \E th \in Threads : PollFetchFail(th)
ModelCall == \E th \in Threads : \E resps \in Responses : PollCall(th, resps)
HandleRaise == \E th \in Threads : PollRaise(th)
AppendLock == \E th \in Threads : PollLock(th)
AppendCall == \E th \in Threads : PollAppend(th)
Respond == \E th \in Threads : PollRespond(th)
RespondFail == \E th \in Threads : PollRespondFail(th)

Next ==
    \/ Construct
    \/ Cleanup
    \/ Call
    \/ ClearCalls
    \/ Written
    \/ ExecReturn
    \/ ExecTimeout
    \/ HarvestLock
    \/ Harvest
    \/ Resume
    \/ BridgeTimeout
    \/ Fetch
    \/ FetchFail
    \/ ModelCall
    \/ HandleRaise
    \/ AppendLock
    \/ AppendCall
    \/ Respond
    \/ RespondFail

Spec == Init /\ [][Next]_vars

\* a session without broker, running code that makes no bridge call
InitScript ==
    /\ Init
    /\ worker_url = "worker" /\ auth_token = "token"
    /\ broker_url = "none" /\ lm_handler_address = "none"

CallScript == \E code \in ScriptCodes : ExecuteCode(code)

NextScript ==
    \/ Construct
    \/ CallScript
    \/ ClearCalls
    \/ Written
    \/ ExecReturn
    \/ ExecTimeout
    \/ HarvestLock
    \/ Harvest

SpecScript == InitScript /\ [][NextScript]_vars

\* the same session, running code that may end the interpreter
CallResult == \E code \in ResultCodes : ExecuteCode(code)

NextResult ==
    \/ Construct
    \/ CallResult
    \/ ClearCalls
    \/ Written
    \/ ExecReturn
    \/ ExecTimeout
    \/ HarvestLock
    \/ Harvest

SpecResult == InitScript /\ [][NextResult]_vars

\* load_context(context_payload) for a string payload: the assignment of the
\* embedded literal is run as a turn
load_context(payload) ==
    ExecuteCode(<<Statement("context", "context", context_literal(payload),
                            StrV(Text(payload)))>>)

LoadContext == \E payload \in Payloads : load_context(payload)

\* the same session, loading string context payloads
NextContext ==
    \/ Construct
    \/ LoadContext
    \/ ClearCalls
    \/ Written
    \/ ExecReturn
    \/ ExecTimeout
    \/ HarvestLock
    \/ Harvest

SpecContext == InitScript /\ [][NextContext]_vars

\* x = 2, x = (1,), x = {1}, x = <object whose repr raises>, _t = 1, and
\* llm_query = 1, llm_query_batched = 1, FINAL_VAR = 1
Bindings ==
    {Statement("set", "x", "", v) : v \in {IntV(2), TupleV(1), SetV(1), BadV}}
    \cup {Statement("set", k, "", IntV(1)) : k \in UnderscoreNames \cup Capabilities}

\* what may follow a binding: y = 3, raise ValueError, y = llm_query("p"),
\* y = FINAL_VAR("x")
Followers ==
    {Statement("set", "y", "", IntV(3)), Statement("raise", "", "", Absent),
     Statement("single", "y", "", IntV(1)), Statement("final", "y", "x", Absent)}

\* no code, one binding, or one binding and a follower
StateCodes ==
    {<<>>} \cup {<<b>> : b \in Bindings}
    \cup {<<b, f>> : b \in Bindings, f \in Followers}

\* the same session, running code that binds names of every kind
CallState == \E code \in StateCodes : ExecuteCode(code)

NextState ==
    \/ Construct
    \/ CallState
    \/ ClearCalls
    \/ Written
    \/ ExecReturn
    \/ ExecTimeout
    \/ HarvestLock
    \/ Harvest

SpecState == InitScript /\ [][NextState]_vars

\* x = [1], x = 2, x.append(1), del x, raise ValueError
FrameStatements ==
    {Statement("set", "x", "", v) : v \in {ListV(1, ""), IntV(2)}}
    \cup {Statement("append", "x", "", Absent), Statement("del", "x", "", Absent),
          Statement("raise", "", "", Absent)}

FrameCodes == CodesOver(FrameStatements, MaxCodeLen)

\* the same session, running code that changes, deletes and rebinds a name
CallFrame == \E code \in FrameCodes : ExecuteCode(code)

NextFrame ==
    \/ Construct
    \/ CallFrame
    \/ ClearCalls
    \/ Written
    \/ ExecReturn
    \/ ExecTimeout
    \/ HarvestLock
    \/ Harvest

SpecFrame == InitScript /\ [][NextFrame]_vars

CallerStep == ClearCalls \/ Written \/ ExecReturn \/ HarvestLock \/ Harvest
PollerStep == Fetch \/ ModelCall \/ AppendLock \/ AppendCall \/ Respond

\* a session with broker and model-call address, hence with a poller, that
\* runs MaxLiveTurns turns and is not cleaned up
InitLive ==
    /\ Init
    /\ worker_url = "worker" /\ auth_token = "token"
    /\ broker_url = "broker" /\ lm_handler_address = "handler"

LiveCall == Call /\ turn < MaxLiveTurns

NextLive ==
    \/ Construct
    \/ LiveCall
    \/ CallerStep
    \/ ExecTimeout
    \/ Resume
    \/ BridgeTimeout
    \/ PollerStep
    \/ FetchFail
    \/ HandleRaise
    \/ RespondFail

\* a session of any configuration that runs MaxLiveTurns turns and may be
\* cleaned up at any time between calls
NextLife == NextLive \/ Cleanup

SpecLife == Init /\ [][NextLife]_vars

\* the scheduler runs every thread that can take a step, and the worker, the
\* broker and the model-call collaborator answer every call; timeouts and
\* transport faults may happen but are not owed
FairSpec ==
    /\ InitLive /\ [][NextLive]_vars
    /\ WF_vars(CallerStep)
    /\ WF_vars(PollerStep)
    /\ WF_vars(Resume)

\* setup() called again on the constructed session
SetupAgain == pc = "idle" /\ \E ok \in BOOLEAN : setup(ok)

\* the steps of one poller thread
PollerThread(th) ==
    \/ PollFetch(th)
    \/ \E resps \in Responses : PollCall(th, resps)
    \/ PollLock(th)
    \/ PollAppend(th)
    \/ PollRespond(th)

\* a session with a poller on which setup() and cleanup() may be called at
\* any time between turns; every thread that can take a step is scheduled
NextSetup == NextLife \/ SetupAgain

FairSetup ==
    /\ InitLive /\ [][NextSetup]_vars
    /\ WF_vars(CallerStep)
    /\ \A th \in Threads : WF_vars(PollerThread(th))
    /\ WF_vars(Resume)

(***************************************************************************)
(* Properties                                                              *)
(***************************************************************************)
PollerRunning == poller_thread # 0 /\ ~poller_stop

\* the completions of a harvested list
CallsOf(r) == {r.rlm_calls[i] : i \in 1..Len(r.rlm_calls)}

\* C1: the calls returned by execute_code for turn T are exactly the
\* completions the poller recorded during T's /sandbox/exec call: none from
\* before it (the write phase, an earlier turn), none from after it, none twice
C1_HarvestExact ==
    (pc = "idle" /\ result.turn = turn /\ turn > 0 /\ ~raised) =>
        /\ \A c \in CallsOf(result) : c.turn = turn /\ c.in_exec
        /\ Len(result.rlm_calls) = hist.in_window
        /\ Cardinality({c.serial : c \in CallsOf(result)}) = Len(result.rlm_calls)

\* C2: for every request id the poller makes the model call once and posts
\* one /respond, never more, and a resolved request had exactly one of each
C2_ResolvedExactlyOnce ==
    \A id \in ReqIds :
        /\ hist.calls[id] <= 1
        /\ hist.posts[id] <= 1
        /\ broker[id].st = "resolved" => (hist.calls[id] = 1 /\ hist.posts[id] = 1)

\* C6: a poller thread exists only when both the broker and the model-call
\* address are configured, and in every other configuration no bridge call
\* enqueues a request at the broker
C6_FailClosed ==
    (broker_url = "none" \/ lm_handler_address = "none") =>
        /\ poller_thread = 0
        /\ \A th \in Threads : poller[th].pc = "none"
        /\ \A id \in ReqIds : broker[id].st = "free"

\* C8: whenever /sandbox/write answers with an error (transport failure or an
\* {error} body), no /sandbox/exec is issued for the turn and the turn returns
\* the write-failure result with no locals and no calls
C8_WriteFailureShortCircuits ==
    /\ pc \in {"exec", "got", "harvest"} => ~write_result.error
    /\ (pc = "idle" /\ turn > 0 /\ write_result.error) =>
          /\ proc[turn].st = "off"
          /\ result = [turn |-> turn, stdout |-> "",
                       stderr |-> "Failed to write script: error",
                       locals |-> NoLocals, rlm_calls |-> <<>>]

\* C9: no cleanup() call raises; a call leaves no poller thread reference and the
\* HTTP channel released, with the stop flag set if a poller was held; and a
\* call on a session already in that state changes nothing of the session state
C9_CleanupIdempotent ==
    [][cleanup => (/\ ~raised'
                  /\ poller_thread' = 0 /\ ~session_open'
                  /\ (poller_thread # 0 => poller_stop')
                  /\ ((poller_thread = 0 /\ ~session_open) => UNCHANGED session_vars))]_vars

C9_Witness == hist.cleanups >= 2 /\ poller_stop /\ ~session_open /\ poller_thread = 0

\* C10 as stated: a request enqueued while the turn's /sandbox/exec call is
\* blocked is resolved at the broker while that call is still blocked
C10_ResolvedWhileBlocked ==
    \A id \in ReqIds :
        (broker[id].st = "resolved" /\ broker[id].in_exec) => broker[id].resolved_in_exec

\* the turn has returned, and the request its script enqueued, if any, was
\* resolved while /sandbox/exec was blocked, unless the bridge call or the
\* /sandbox/exec call timed out
TurnSettled ==
    /\ pc = "idle"
    /\ \/ exec_result.error
       \/ write_failed(write_result)
       \/ \A id \in ReqIds :
             (broker[id].st # "free" /\ broker[id].turn = turn) =>
                 \/ broker[id].timed_out
                 \/ broker[id].st = "resolved" /\ broker[id].resolved_in_exec

\* C10: with a poller running, a request enqueued while the turn's
\* /sandbox/exec call is blocked is resolved at the broker while that call is
\* blocked, unless the exec call or the bridge call times out first, and the
\* turn eventually returns; the caller never holds the calls lock while
\* blocked in exec
C10_ConcurrentLiveness ==
    /\ (pc = "exec" /\ PollerRunning) ~> TurnSettled
    /\ [](pc = "exec" => calls_lock # "caller")

C10_Witness ==
    \E id \in ReqIds :
        /\ broker[id].st = "resolved" /\ broker[id].in_exec /\ broker[id].resolved_in_exec
        /\ pc = "exec" /\ turn = broker[id].turn /\ proc[turn].st = "blocked"

UserNames == Names \ (UnderscoreNames \cup Capabilities)

\* C3: when the executed code raises, the trace is in stderr, the state file is
\* written and the record emitted, and every non-underscore binding the code
\* made before the failure is persisted
C3_FailureKeepsBindings ==
    \A t \in Turns :
        (proc[t].st = "done" /\ proc[t].err) =>
            /\ proc[t].rec.stderr # ""
            /\ proc[t].out = "record"
            /\ \A k \in UserNames :
                  (proc[t].combined[k] # Absent /\ proc[t].combined[k] # proc[t].loaded[k])
                     => proc[t].saved[k] = save_state(proc[t].combined)[k]

\* C4: a non-underscore name bound to a JSON-serializable value at the end of
\* turn T has that same value in the namespace at the start of turn T+1
C4_Continuity ==
    \A t \in Turns :
        (t + 1 \in Turns /\ proc[t].st \in {"done", "dead"} /\ proc[t + 1].st # "off") =>
            \A k \in Names \ UnderscoreNames :
                (proc[t].combined[k] # Absent /\ json_dumps_ok(proc[t].combined[k]))
                   => merge_namespace(proc[t + 1].loaded)[k] = proc[t].combined[k]

\* C5: FINAL_VAR returns the printable form of the value the name has in the
\* executing namespace at the time of the call, and the not-found marker only
\* when the name is not bound there
C5_FinalVarCurrent ==
    \A t \in Turns :
        (proc[t].fv.called /\ repr_ok(proc[t].fv.cur)) =>
            proc[t].fv.ret = IF proc[t].fv.cur # Absent THEN str(proc[t].fv.cur)
                             ELSE NotFound(proc[t].fv.name)

\* C7: execute_code never raises; when the output of /sandbox/exec holds no
\* result record the result carries the raw stdout, a non-empty stderr
\* diagnostic and no locals, and on a transport failure its stdout is empty
C7_NeverRaises ==
    (pc = "idle" /\ turn > 0 /\ ~write_failed(write_result)) =>
        /\ ~raised
        /\ result.turn = turn
        /\ stdout_of(exec_result) # "record" =>
              /\ result.stdout = stdout_of(exec_result)
              /\ result.stderr # ""
              /\ result.locals = NoLocals
        /\ exec_result.error => result.stdout = ""

\* C13: a session constructed without a worker URL or without an auth token is
\* rejected with a raised error before any request is sent to the worker and
\* before any poller thread is started
C13_EagerConfigurationError ==
    ((worker_url = "" \/ auth_token = "") /\ pc # "new") =>
        /\ pc = "rejected"
        /\ raised
        /\ ~hist.probed
        /\ hist.started = 0

\* a thread that is in its polling loop
Polling(th) == poller[th].pc \notin {"none", "exited"}

\* C18: once the stop flag is raised, every poller thread eventually exits its
\* loop, and a thread that has exited (it observed the flag) fetches nothing
\* any more
C18_StopIsObserved ==
    /\ \A th \in Threads : (poller_stop /\ Polling(th)) ~> ~Polling(th)
    /\ [][\A th \in Threads : poller[th].pc = "exited" => poller'[th].pc = "exited"]_vars

\* C19: at most one poller thread of the session is in its polling loop, and
\* the stop flag is never lowered while a thread that was told to stop is
\* still in its loop
C19_AtMostOnePoller ==
    /\ [](Cardinality({th \in Threads : Polling(th)}) <= 1)
    /\ [][\A th \in Threads : (poller_stop /\ Polling(th)) => (poller_stop' \/ ~Polling(th)')]_vars

ErrorPlaceholder == "Error: model call failed"

\* C11: a batched request with n prompts is resolved with a list of n entries
\* whose entry i is the completion for prompt i or an error placeholder, and
\* the value llm_query_batched gives the code is always a list of n entries
C11_BatchedOrder ==
    /\ \A id \in ReqIds :
          (broker[id].st = "resolved" /\ broker[id].kind = "batched") =>
              /\ broker[id].payload.kind = "responses"
              /\ Len(broker[id].payload.items) = broker[id].nprompts
              /\ \A i \in 1..broker[id].nprompts :
                    /\ broker[id].payload.items[i] \in {Answer(id, i), ErrorPlaceholder}
                    /\ hist.calls[id] = 1 =>
                          (broker[id].payload.items[i] = ErrorPlaceholder <=> i \in hist.failed[id])
    /\ \A t \in Turns :
          (proc[t].st = "done" /\ proc[t].combined["y"] # Absent) =>
              /\ proc[t].combined["y"].t = "list"
              /\ proc[t].combined["y"].n = MaxPrompts

C11_Witness ==
    \E id \in ReqIds :
        /\ broker[id].st = "resolved" /\ broker[id].kind = "batched"
        /\ \E i, j \in 1..broker[id].nprompts :
              /\ broker[id].payload.items[i] = Answer(id, i)
              /\ broker[id].payload.items[j] = ErrorPlaceholder
        /\ \E t \in Turns : proc[t].st = "done" /\ proc[t].combined["y"] # Absent

\* C16: a request whose model call reported a failure gets no second model
\* call, is resolved with the failure as payload (an error payload, or the
\* error placeholder at the failed index), and no completion is appended for a
\* failed index
C16_NoRetryOnFailure ==
    \A id \in ReqIds :
        hist.failed[id] # {} =>
            /\ hist.calls[id] <= 1
            /\ broker[id].st = "resolved" =>
                  IF broker[id].kind = "single"
                  THEN broker[id].payload.kind = "error"
                  ELSE \A i \in hist.failed[id] : broker[id].payload.items[i] = ErrorPlaceholder
            /\ \A k \in 1..Len(pending_llm_calls) :
                  pending_llm_calls[k].id = id => pending_llm_calls[k].idx \notin hist.failed[id]

\* the indices of the successful responses
Successes(resps) == {i \in 1..Len(resps) : resps[i]}

\* the completions of request id in the Pending Call Set
PendingOf(id) == {pending_llm_calls[k].idx : k \in {j \in 1..Len(pending_llm_calls) :
                                                      pending_llm_calls[j].id = id}}

\* C17 as stated: whenever a request is resolved with a success and the
\* sandboxed call has not yet returned, its completions are in the Pending
\* Call Set
C17_InSetWhenUnblocking ==
    \A id \in ReqIds :
        (broker[id].st = "resolved" /\ broker[id].waiter # 0) =>
            \A i \in 1..Len(broker[id].payload.items) :
                broker[id].payload.items[i] = Answer(id, i) => i \in PendingOf(id)

\* C17: the poller appends every completion of a request with the mutex held
\* and before it posts the /respond for it, so when the sandboxed call is about
\* to unblock while the turn's /sandbox/exec call is still blocked, its
\* completions are in the Pending Call Set
C17_AppendBeforeRespond ==
    /\ [](\A th \in Threads : poller[th].pc = "append" => calls_lock = PollerName(th))
    /\ [][\A th \in Threads :
            PollRespond(th) => Successes(poller[th].resps) \subseteq hist.done[th]]_vars
    /\ [](\A id \in ReqIds :
            (broker[id].st = "resolved" /\ broker[id].waiter # 0
               /\ pc = "exec" /\ turn = broker[id].turn) =>
                \A i \in 1..Len(broker[id].payload.items) :
                    broker[id].payload.items[i] = Answer(id, i) => i \in PendingOf(id))

C17_Witness ==
    \E id \in ReqIds :
        /\ broker[id].st = "resolved" /\ broker[id].waiter # 0
        /\ pc = "exec" /\ turn = broker[id].turn
        /\ broker[id].kind = "batched"
        /\ PendingOf(id) = 1..broker[id].nprompts

\* C12: for every string payload over quotes, backslashes and ordinary
\* characters, the literal load_context embeds is not terminated early and the
\* variable context in the sandbox equals the payload
C12_ContextRoundTrip ==
    \A t \in Turns :
        (proc[t].st = "done" /\ proc[t].ctx.given) =>
            /\ ~proc[t].err
            /\ proc[t].combined["context"] = proc[t].ctx.payload

\* C14: after any sequence of turns the state file holds no name that begins
\* with an underscore, and no such name is in the locals of a result record or
\* of a Turn Result
C14_UnderscoreNeverPersisted ==
    \A k \in UnderscoreNames :
        /\ state_file[k] = Absent
        /\ result.locals[k] = ""
        /\ \A t \in Turns : proc[t].rec.locals[k] = "" /\ proc[t].saved[k] = Absent

C14_Witness ==
    \E t \in Turns : \E k \in UnderscoreNames :
        /\ proc[t].st = "done" /\ proc[t].combined[k] # Absent
        /\ pc = "idle" /\ result.turn = t /\ result.stderr = ""

\* C15: the save step completes in every script run that reaches it; an entry
\* whose value json.dumps accepts is stored as that value (a tuple as the JSON
\* array of its items), an entry it refuses is stored as its repr string and
\* is loaded as that string by the next turn, an entry whose repr raises too is
\* left out, and the other entries are stored whatever one entry does
C15_SaveNeverAborts ==
    \A t \in Turns :
        proc[t].st = "done" =>
            /\ proc[t].out = "record"
            /\ \A k \in Names \ UnderscoreNames :
                  LET v == proc[t].locals[k]
                      stored == proc[t].saved[k]
                  IN /\ v.t \in {"int", "str", "list"} => stored = v
                     /\ v.t = "tuple" => stored = ListV(v.n, "")
                     /\ v.t \in {"set", "function"} => stored = StrV(repr(v))
                     /\ v.t \in {"bad", "absent"} => stored = Absent
                     /\ (t + 1 \in Turns /\ proc[t + 1].st \in {"done", "blocked"})
                           => proc[t + 1].loaded[k] = stored

C15_Witness ==
    \E t \in Turns :
        /\ t + 1 \in Turns
        /\ proc[t].st = "done" /\ proc[t].locals["x"] = SetV(1)
        /\ proc[t + 1].st = "done" /\ proc[t + 1].loaded["x"] = StrV("{1}")
        /\ proc[t + 1].locals["x"] = BadV /\ proc[t + 1].locals["y"] = IntV(3)
        /\ state_file["x"] = Absent /\ state_file["y"] = IntV(3)

\* C20: every turn starts with llm_query, llm_query_batched and FINAL_VAR bound
\* to the injected functions, whatever earlier turns bound them to; the three
\* names are never in the state file nor in the locals of a Turn Result
C20_CapabilitiesRebound ==
    \A k \in Capabilities :
        /\ state_file[k] = Absent
        /\ result.locals[k] = ""
        /\ \A t \in Turns :
              proc[t].st \in {"done", "blocked"} =>
                  /\ merge_namespace(proc[t].loaded)[k] = FnV(k)
                  /\ proc[t].rec.locals[k] = ""

C20_Witness ==
    \E t \in Turns :
        /\ t + 1 \in Turns
        /\ proc[t].st = "done" /\ ~proc[t].err /\ proc[t].combined["FINAL_VAR"] = IntV(1)
        /\ proc[t + 1].st = "done" /\ ~proc[t + 1].err
        /\ proc[t + 1].fv.called
        /\ pc = "idle" /\ result.turn = t + 1

\* C21: a name that is in the state file at the start of a turn is in it at
\* the end with its old value unless the code of the turn completed without
\* raising and left the name bound: a turn that raises, and a turn that deletes
\* the name, leave its persisted entry as it was
C21_TurnNeverRemoves ==
    \A t \in Turns :
        proc[t].st = "done" =>
            \A k \in Names :
                (proc[t].loaded[k] # Absent /\ (proc[t].err \/ proc[t].combined[k] = Absent))
                    => proc[t].saved[k] = proc[t].loaded[k]

====
